---- MODULE Spec2Model ----
(***************************************************************************)
(* Model of arbnode/block_challenge_backend.go: the block challenge        *)
(* backend of the bisection game.  The backend's fields are the state,     *)
(* the block store and the batch metadata provider are external data,      *)
(* and every exported method is one action.                                *)
(***************************************************************************)
EXTENDS Integers, Naturals, Sequences, FiniteSets, TLC

(* ---- bounds of the model ---- *)
\* number of batch indices the metadata provider may know (0..MaxBatch-1)
MaxBatch == 3
\* largest cumulative message count / block number of the generic stores
MaxMsg == 2
\* width of the modelled unsigned integers, in bits (uint64 scaled down)
WordBits == 5

UintModulus == 2 ^ WordBits
\* math.MaxUint64 at the modelled width
MaxUint64 == UintModulus - 1

Add(a, b) == (a + b) % UintModulus
Sub(a, b) == (a - b + UintModulus) % UintModulus

STATUS_FINISHED == 1
STATUS_TOO_FAR == 3

NotFound == -1
NoErr == "nil"

VARIABLES
    meta,                    \* inboxTracker: batch index -> MessageCount | NotFound
    blocks,                  \* bc: the block numbers present in the block store
    startBlock,
    startPosition,
    endPosition,
    startGs,
    endGs,
    tooFarStartsAtPosition,
    constructErr,            \* error returned by NewBlockChallengeBackend
    initial,                 \* the backend as NewBlockChallengeBackend returned it
    last                     \* the last call made on the backend, and its outcome

vars == <<meta, blocks, startBlock, startPosition, endPosition, startGs, endGs,
          tooFarStartsAtPosition, constructErr, initial, last>>

env == <<meta, blocks>>

(* ---- external collaborators ---- *)
ZeroHash == 0
\* block.Hash(): distinct blocks have distinct, non-zero hashes
HashOfBlock(n) == n + 1

GetBlockByNumber(bs, n) == IF n \in bs THEN n ELSE NotFound

GetBlockByHash(bs, h) ==
    IF \E n \in bs : HashOfBlock(n) = h
    THEN CHOOSE n \in bs : HashOfBlock(n) = h
    ELSE NotFound

GetBatchMetadata(m, i) == IF i \in DOMAIN m THEN m[i] ELSE NotFound

(* ---- GoGlobalState ---- *)
GoGlobalState(h, batch, pos) == [BlockHash |-> h, Batch |-> batch, PosInBatch |-> pos]
ZeroGlobalState == GoGlobalState(ZeroHash, 0, 0)

BlockChallengeBackend(sb, sp, ep, sgs, egs, tf) ==
    [startBlock |-> sb, startPosition |-> sp, endPosition |-> ep,
     startGs |-> sgs, endGs |-> egs, tooFarStartsAtPosition |-> tf]

ZeroBackend == BlockChallengeBackend(0, 0, 0, ZeroGlobalState, ZeroGlobalState, 0)

\* the backend the state variables hold
Backend == BlockChallengeBackend(startBlock, startPosition, endPosition,
                                 startGs, endGs, tooFarStartsAtPosition)

(* ---- NewBlockChallengeBackend ---- *)
\* NewBlockChallengeBackend accepting an end batch equal to the start batch
NewBlockChallengeBackendSameBatch(m, bs, solStartGs, solEndGs) ==
    LET startBlockNum == GetBlockByHash(bs, solStartGs.BlockHash)
        startBatchMeta == IF solStartGs.Batch > 0
                          THEN GetBatchMetadata(m, solStartGs.Batch - 1)
                          ELSE 0
        lastBatchMeta == GetBatchMetadata(m, solEndGs.Batch - 1)
        fail(e) == [err |-> e, b |-> ZeroBackend]
    IN  IF solStartGs.PosInBatch # 0
            THEN fail("challenge started misaligned with batch boundary")
        ELSE IF startBlockNum = NotFound
            THEN fail("failed to find start block")
        ELSE IF startBatchMeta = NotFound
            THEN fail("failed to get challenge start batch metadata")
        ELSE IF startBatchMeta # startBlockNum
            THEN fail("start block and start message count are not 1:1")
        ELSE IF solEndGs.PosInBatch # 0
            THEN fail("challenge ended misaligned with batch boundary")
        ELSE IF solEndGs.Batch < solStartGs.Batch
            THEN fail("challenge didn't advance batch")
        ELSE IF lastBatchMeta = NotFound
            THEN fail("failed to get challenge end batch metadata")
        ELSE IF GetBlockByNumber(bs, lastBatchMeta) = NotFound
            THEN fail("missing block at end of last challenge batch")
        ELSE [err |-> NoErr,
              b |-> BlockChallengeBackend(startBlockNum, 0, MaxUint64,
                        solStartGs, solEndGs,
                        Add(Sub(lastBatchMeta, startBlockNum), 1))]

\* NewBlockChallengeBackend without the check of lines 101-103
NewBlockChallengeBackendUnmatched(m, bs, solStartGs, solEndGs) ==
    LET startBlockNum == GetBlockByHash(bs, solStartGs.BlockHash)
        startBatchMeta == IF solStartGs.Batch > 0
                          THEN GetBatchMetadata(m, solStartGs.Batch - 1)
                          ELSE 0
        lastBatchMeta == GetBatchMetadata(m, solEndGs.Batch - 1)
        fail(e) == [err |-> e, b |-> ZeroBackend]
    IN  IF solStartGs.PosInBatch # 0
            THEN fail("challenge started misaligned with batch boundary")
        ELSE IF startBlockNum = NotFound
            THEN fail("failed to find start block")
        ELSE IF startBatchMeta = NotFound
            THEN fail("failed to get challenge start batch metadata")
        ELSE IF solEndGs.PosInBatch # 0
            THEN fail("challenge ended misaligned with batch boundary")
        ELSE IF solEndGs.Batch <= solStartGs.Batch
            THEN fail("challenge didn't advance batch")
        ELSE IF lastBatchMeta = NotFound
            THEN fail("failed to get challenge end batch metadata")
        ELSE IF GetBlockByNumber(bs, lastBatchMeta) = NotFound
            THEN fail("missing block at end of last challenge batch")
        ELSE [err |-> NoErr,
              b |-> BlockChallengeBackend(startBlockNum, 0, MaxUint64,
                        solStartGs, solEndGs,
                        Add(Sub(lastBatchMeta, startBlockNum), 1))]

NewBlockChallengeBackend(m, bs, solStartGs, solEndGs) ==
    LET startBlockNum == GetBlockByHash(bs, solStartGs.BlockHash)
        startBatchMeta == IF solStartGs.Batch > 0
                          THEN GetBatchMetadata(m, solStartGs.Batch - 1)
                          ELSE 0
        lastBatchMeta == GetBatchMetadata(m, solEndGs.Batch - 1)
        fail(e) == [err |-> e, b |-> ZeroBackend]
    IN  IF solStartGs.PosInBatch # 0
            THEN fail("challenge started misaligned with batch boundary")
        ELSE IF startBlockNum = NotFound
            THEN fail("failed to find start block")
        ELSE IF startBatchMeta = NotFound
            THEN fail("failed to get challenge start batch metadata")
        ELSE IF startBatchMeta # startBlockNum
            THEN fail("start block and start message count are not 1:1")
        ELSE IF solEndGs.PosInBatch # 0
            THEN fail("challenge ended misaligned with batch boundary")
        ELSE IF solEndGs.Batch <= solStartGs.Batch
            THEN fail("challenge didn't advance batch")
        ELSE IF lastBatchMeta = NotFound
            THEN fail("failed to get challenge end batch metadata")
        ELSE IF GetBlockByNumber(bs, lastBatchMeta) = NotFound
            THEN fail("missing block at end of last challenge batch")
        ELSE [err |-> NoErr,
              b |-> BlockChallengeBackend(startBlockNum, 0, MaxUint64,
                        solStartGs, solEndGs,
                        Add(Sub(lastBatchMeta, startBlockNum), 1))]

(* ---- findBatchFromMessageCount ---- *)
\* SearchStep without the mid == low tie-break of line 163
SearchStepNoTieBreak(m, low, high, msgCount) ==
    LET mid == Add(low, high) \div 2
        batchMeta == GetBatchMetadata(m, mid)
    IN  IF batchMeta = NotFound
            THEN [kind |-> "err", low |-> low, high |-> high, mid |-> mid]
        ELSE IF batchMeta < msgCount
            THEN [kind |-> "loop", low |-> Add(mid, 1), high |-> high, mid |-> mid]
        ELSE IF batchMeta = msgCount
            THEN [kind |-> "return", low |-> low, high |-> high, mid |-> mid]
        ELSE [kind |-> "loop", low |-> low, high |-> mid, mid |-> mid]

\* one iteration of the binary search loop, from the bounds (low, high)
SearchStep(m, low, high, msgCount) ==
    LET mid == Add(low, high) \div 2
        batchMeta == GetBatchMetadata(m, mid)
    IN  IF batchMeta = NotFound
            THEN [kind |-> "err", low |-> low, high |-> high, mid |-> mid]
        ELSE IF batchMeta < msgCount
            THEN [kind |-> "loop", low |-> Add(mid, 1), high |-> high, mid |-> mid]
        ELSE IF batchMeta = msgCount
            THEN [kind |-> "return", low |-> low, high |-> high, mid |-> mid]
        ELSE IF mid = low
            THEN [kind |-> "return", low |-> low, high |-> high, mid |-> mid]
        ELSE [kind |-> "loop", low |-> low, high |-> mid, mid |-> mid]

SearchResult(err, hang, batch, trace) ==
    [err |-> err, hang |-> hang, batch |-> batch, trace |-> trace]

\* the outcome of an iteration that went round the loop again: the rest of
\* the loop's outcome, with this iteration's bounds in front of its trace
Iterate(here, rest) ==
    SearchResult(rest.err, rest.hang, rest.batch, <<here>> \o rest.trace)

\* the loop: trace lists the bounds <<low, high>> at the start of every
\* iteration executed.  The loop is deterministic, so bounds that come back
\* to a pair already seen repeat forever: the call never returns (hang).
RECURSIVE SearchLoop(_, _, _, _, _)
SearchFrom(m, here, step, msgCount, seen) ==
    IF here \in seen
        THEN SearchResult(NoErr, TRUE, 0, <<>>)
    ELSE IF step.kind = "err"
        THEN SearchResult("failed to get batch metadata while binary searching",
                          FALSE, 0, <<here>>)
    ELSE IF step.kind = "return"
        THEN SearchResult(NoErr, FALSE, step.mid, <<here>>)
    ELSE Iterate(here, SearchLoop(m, step.low, step.high, msgCount, seen \cup {here}))

SearchLoop(m, low, high, msgCount, seen) ==
    SearchFrom(m, <<low, high>>, SearchStep(m, low, high, msgCount), msgCount, seen)

\* the bounds the search starts from
SearchLow(b) == b.startGs.Batch
SearchHigh(b) ==
    IF b.endGs.PosInBatch = 0 THEN Sub(b.endGs.Batch, 1) ELSE b.endGs.Batch

findBatchFromMessageCount(m, b, msgCount) ==
    IF msgCount = 0
        THEN SearchResult(NoErr, FALSE, 0, <<>>)
    ELSE IF b.endGs.PosInBatch = 0 /\ b.endGs.Batch = 0
        THEN SearchResult("end global state at inbox position (0, 0)", FALSE, 0, <<>>)
    ELSE SearchLoop(m, SearchLow(b), SearchHigh(b), msgCount, {})

(* ---- getInfoAtStep ---- *)
InfoResult(gs, status, err, hang, queries, trace) ==
    [gs |-> gs, status |-> status, err |-> err, hang |-> hang,
     queries |-> queries, trace |-> trace]

\* ResolveStep without the consistency check of lines 193-195
ResolveStepUnchecked(m, block, msgCount, found, prevBatchMeta) ==
    IF found.hang
        THEN InfoResult(ZeroGlobalState, 0, NoErr, TRUE, 1 + Len(found.trace), found.trace)
    ELSE IF found.err # NoErr
        THEN InfoResult(ZeroGlobalState, 0, found.err, FALSE,
                        1 + Len(found.trace), found.trace)
    ELSE IF found.batch = 0
        THEN InfoResult(GoGlobalState(HashOfBlock(block), 0, msgCount),
                        STATUS_FINISHED, NoErr, FALSE, 1 + Len(found.trace), found.trace)
    ELSE IF prevBatchMeta = NotFound
        THEN InfoResult(ZeroGlobalState, 0, "batch metadata not found",
                        FALSE, 2 + Len(found.trace), found.trace)
    ELSE InfoResult(GoGlobalState(HashOfBlock(block), found.batch,
                                  Sub(msgCount, prevBatchMeta)),
                    STATUS_FINISHED, NoErr, FALSE, 2 + Len(found.trace), found.trace)

\* lines 187-202: the state of the step, from the batch the search found
ResolveStep(m, block, msgCount, found, prevBatchMeta) ==
    IF found.hang
        THEN InfoResult(ZeroGlobalState, 0, NoErr, TRUE, 1 + Len(found.trace), found.trace)
    ELSE IF found.err # NoErr
        THEN InfoResult(ZeroGlobalState, 0, found.err, FALSE,
                        1 + Len(found.trace), found.trace)
    ELSE IF found.batch = 0
        THEN InfoResult(GoGlobalState(HashOfBlock(block), 0, msgCount),
                        STATUS_FINISHED, NoErr, FALSE, 1 + Len(found.trace), found.trace)
    ELSE IF prevBatchMeta = NotFound
        THEN InfoResult(ZeroGlobalState, 0, "batch metadata not found",
                        FALSE, 2 + Len(found.trace), found.trace)
    ELSE IF prevBatchMeta >= msgCount
        THEN InfoResult(ZeroGlobalState, 0, "findBatchFromMessageCount returned bad block",
                        FALSE, 2 + Len(found.trace), found.trace)
    ELSE InfoResult(GoGlobalState(HashOfBlock(block), found.batch,
                                  Sub(msgCount, prevBatchMeta)),
                    STATUS_FINISHED, NoErr, FALSE, 2 + Len(found.trace), found.trace)

\* LocateStep returning a nil error with the zero status for a missing block
LocateStepNilError(m, b, block, msgCount, found) ==
    IF block = NotFound
        THEN InfoResult(ZeroGlobalState, 0, NoErr, FALSE, 1, <<>>)
    ELSE ResolveStep(m, block, msgCount, found, GetBatchMetadata(m, found.batch - 1))

\* lines 178-186: the block of the step and the batch it falls in
LocateStep(m, b, block, msgCount, found) ==
    IF block = NotFound
        THEN InfoResult(ZeroGlobalState, 0, "failed to get block in block challenge",
                        FALSE, 1, <<>>)
    ELSE ResolveStep(m, block, msgCount, found, GetBatchMetadata(m, found.batch - 1))

\* getInfoAtStep with the boundary position itself not too far
getInfoAtStepStrict(m, bs, b, position) ==
    IF position > b.tooFarStartsAtPosition
        THEN InfoResult(ZeroGlobalState, STATUS_TOO_FAR, NoErr, FALSE, 0, <<>>)
    ELSE LocateStep(m, b, GetBlockByNumber(bs, Add(b.startBlock, position)),
                    Add(b.startBlock, position),
                    findBatchFromMessageCount(m, b, Add(b.startBlock, position)))

getInfoAtStep(m, bs, b, position) ==
    IF position >= b.tooFarStartsAtPosition
        THEN InfoResult(ZeroGlobalState, STATUS_TOO_FAR, NoErr, FALSE, 0, <<>>)
    ELSE LocateStep(m, b, GetBlockByNumber(bs, Add(b.startBlock, position)),
                    Add(b.startBlock, position),
                    findBatchFromMessageCount(m, b, Add(b.startBlock, position)))

(* ---- SetRange ---- *)
CallResult(b, err, hang, queries) ==
    [b |-> b, err |-> err, hang |-> hang, queries |-> queries]

\* CommitRange storing the end state whatever its status
CommitRangeAlways(b, newStartGs, newEndGs, endStatus) ==
    [b EXCEPT !.startGs = newStartGs, !.endGs = newEndGs]

\* lines 217-220: what a call whose two lookups succeeded stores
CommitRange(b, newStartGs, newEndGs, endStatus) ==
    [b EXCEPT !.startGs = newStartGs,
              !.endGs = IF endStatus = STATUS_FINISHED THEN newEndGs ELSE b.endGs]

\* SetRangeLookups storing the new start state before the end lookup is made
SetRangeLookupsEager(b, s, e) ==
    IF s.hang
        THEN CallResult(b, NoErr, TRUE, s.queries)
    ELSE IF s.err # NoErr
        THEN CallResult(b, s.err, FALSE, s.queries)
    ELSE IF e.hang
        THEN CallResult([b EXCEPT !.startGs = s.gs], NoErr, TRUE, s.queries + e.queries)
    ELSE IF e.err # NoErr
        THEN CallResult([b EXCEPT !.startGs = s.gs], e.err, FALSE, s.queries + e.queries)
    ELSE CallResult(CommitRange(b, s.gs, e.gs, e.status),
                    NoErr, FALSE, s.queries + e.queries)

\* lines 209-221, given the outcomes s and e of the two lookups (both are
\* made in the state the call found; the second is not made if the first failed)
SetRangeLookups(b, s, e) ==
    IF s.hang
        THEN CallResult(b, NoErr, TRUE, s.queries)
    ELSE IF s.err # NoErr
        THEN CallResult(b, s.err, FALSE, s.queries)
    ELSE IF e.hang
        THEN CallResult(b, NoErr, TRUE, s.queries + e.queries)
    ELSE IF e.err # NoErr
        THEN CallResult(b, e.err, FALSE, s.queries + e.queries)
    ELSE CallResult(CommitRange(b, s.gs, e.gs, e.status),
                    NoErr, FALSE, s.queries + e.queries)

SetRangeCall(m, bs, b, start, end) ==
    IF b.startPosition = start /\ b.endPosition = end
        THEN CallResult(b, NoErr, FALSE, 0)
    ELSE SetRangeLookups(b, getInfoAtStep(m, bs, b, start), getInfoAtStep(m, bs, b, end))

(* ---- hashing ---- *)
\* binary.BigEndian.PutUint64: 8 bytes, most significant first (the modelled
\* values fit the low four bytes)
u64ToBe(x) == [i \in 1..8 |-> IF i <= 4 THEN 0 ELSE (x \div (256 ^ (8 - i))) % 256]

\* crypto.Keccak256Hash, as an injective function of its input bytes
Keccak256Hash(data) == <<"keccak256", data>>

GlobalStateHash(gs) ==
    Keccak256Hash(<<"Global state:", gs.BlockHash>>
                  \o u64ToBe(gs.Batch) \o u64ToBe(gs.PosInBatch))

NoHash == <<"none">>

(* ---- GetHashAtStep ---- *)
HashResult(hash, r) ==
    [hash |-> hash, err |-> r.err, hang |-> r.hang, queries |-> r.queries]

\* lines 226-237, given the outcome r of the lookup
BlockStateHash(r) ==
    IF r.hang \/ r.err # NoErr
        THEN HashResult(NoHash, r)
    ELSE IF r.status = STATUS_FINISHED
        THEN HashResult(Keccak256Hash(<<"Block state:", GlobalStateHash(r.gs)>>), r)
    ELSE IF r.status = STATUS_TOO_FAR
        THEN HashResult(Keccak256Hash(<<"Block state, too far:">>), r)
    ELSE [hash |-> NoHash, err |-> "panic: Unknown block status",
          hang |-> FALSE, queries |-> r.queries]

GetHashAtStepCall(m, bs, b, position) == BlockStateHash(getInfoAtStep(m, bs, b, position))

(* ---- IssueOneStepProof ---- *)
\* lines 260-268: the transaction sent to the challenge contract (the
\* arguments copied from oldState are left out)
ChallengeExecution(machineStatuses, globalStateHashes) ==
    [machineStatuses |-> machineStatuses, globalStateHashes |-> globalStateHashes]

\* calls: the ChallengeExecution calls made on the contract, in order
ProofResult(err, hang, queries, calls) ==
    [err |-> err, hang |-> hang, queries |-> queries, calls |-> calls]

\* IssueOneStepProofLookups sending the block-state hashes GetHashAtStep
\* returns instead of the hashes of the global states
IssueOneStepProofLookupsWrapped(first, second, sendErr) ==
    IF first.hang
        THEN ProofResult(NoErr, TRUE, first.queries, <<>>)
    ELSE IF first.err # NoErr
        THEN ProofResult(first.err, FALSE, first.queries, <<>>)
    ELSE IF second.hang
        THEN ProofResult(NoErr, TRUE, first.queries + second.queries, <<>>)
    ELSE IF second.err # NoErr
        THEN ProofResult(second.err, FALSE, first.queries + second.queries, <<>>)
    ELSE ProofResult(sendErr, FALSE, first.queries + second.queries,
                     <<ChallengeExecution(<<first.status, second.status>>,
                                          <<BlockStateHash(first).hash,
                                            BlockStateHash(second).hash>>)>>)

\* lines 248-268, given the outcomes of the two lookups and the error the
\* contract call returns
IssueOneStepProofLookups(first, second, sendErr) ==
    IF first.hang
        THEN ProofResult(NoErr, TRUE, first.queries, <<>>)
    ELSE IF first.err # NoErr
        THEN ProofResult(first.err, FALSE, first.queries, <<>>)
    ELSE IF second.hang
        THEN ProofResult(NoErr, TRUE, first.queries + second.queries, <<>>)
    ELSE IF second.err # NoErr
        THEN ProofResult(second.err, FALSE, first.queries + second.queries, <<>>)
    ELSE ProofResult(sendErr, FALSE, first.queries + second.queries,
                     <<ChallengeExecution(<<first.status, second.status>>,
                                          <<GlobalStateHash(first.gs),
                                            GlobalStateHash(second.gs)>>)>>)

\* position is oldState.Segments[startSegment].Position
IssueOneStepProofCall(m, bs, b, position, sendErr) ==
    IssueOneStepProofLookups(getInfoAtStep(m, bs, b, position),
                             getInfoAtStep(m, bs, b, Add(position, 1)), sendErr)

(* ---- the stores and the contract states the model starts from ---- *)
\* cumulative message counts are non-decreasing over the batches present
NonDecreasing(m) == \A i, j \in DOMAIN m : i <= j => m[i] <= m[j]

\* the provider has metadata for every batch index
CompleteMetas == {m \in [0..(MaxBatch - 1) -> 0..MaxMsg] : NonDecreasing(m)}

\* the provider lacks the metadata of one batch index (its lookup fails)
HoledMetas ==
    {m \in UNION {[(0..(MaxBatch - 1)) \ {i} -> 0..MaxMsg] : i \in 0..(MaxBatch - 1)} :
        NonDecreasing(m)}

MetaStores == CompleteMetas \cup HoledMetas

\* the block store has every block
AllBlocks == 0..MaxMsg

\* the block store lacks one block
HoledBlocks == {AllBlocks \ {n} : n \in AllBlocks}

BlockStores == {AllBlocks} \cup HoledBlocks

\* the start state the contract reports
SolStartStates ==
    {GoGlobalState(HashOfBlock(n), batch, pos) :
        n \in 0..MaxMsg, batch \in 0..MaxBatch, pos \in {0, 1}}

\* the end state the contract reports; its block hash is the asserted one,
\* which the backend never resolves
SolEndStates ==
    {GoGlobalState(HashOfBlock(MaxMsg), batch, pos) : batch \in 0..MaxBatch, pos \in {0, 1}}

\* every batch index has metadata
MetaComplete == DOMAIN meta = 0..(MaxBatch - 1)

CallRecord(op, start, end, err, hang, queries, ret) ==
    [op |-> op, start |-> start, end |-> end, err |-> err, hang |-> hang,
     queries |-> queries, ret |-> ret]

Install(b) ==
    /\ startBlock = b.startBlock
    /\ startPosition = b.startPosition
    /\ endPosition = b.endPosition
    /\ startGs = b.startGs
    /\ endGs = b.endGs
    /\ tooFarStartsAtPosition = b.tooFarStartsAtPosition

Construct(m, bs, solStartGs, solEndGs) ==
    \E r \in {NewBlockChallengeBackend(m, bs, solStartGs, solEndGs)} :
        /\ meta = m
        /\ blocks = bs
        /\ constructErr = r.err
        /\ Install(r.b)
        /\ initial = r.b
        /\ last = CallRecord("New", solStartGs, solEndGs, r.err, FALSE, 0, NoHash)

\* every outcome of NewBlockChallengeBackend, failures included
NewInit ==
    \E m \in MetaStores, bs \in BlockStores,
       solStartGs \in SolStartStates, solEndGs \in SolEndStates :
        Construct(m, bs, solStartGs, solEndGs)

\* the backends NewBlockChallengeBackend produces over complete stores
Init ==
    \E m \in CompleteMetas, solStartGs \in SolStartStates, solEndGs \in SolEndStates :
        /\ Construct(m, AllBlocks, solStartGs, solEndGs)
        /\ constructErr = NoErr

\* the backends it produces, for a challenge over the whole inbox, when one
\* block or the metadata of one batch is missing from the stores
FaultInit ==
    \E m \in MetaStores, bs \in BlockStores :
        /\ (m \in HoledMetas) # (bs \in HoledBlocks)
        /\ Construct(m, bs, GoGlobalState(HashOfBlock(0), 0, 0),
                     GoGlobalState(HashOfBlock(MaxMsg), MaxBatch, 0))
        /\ constructErr = NoErr

(* ---- the calls the driving loop makes ---- *)
Min(a, b) == IF a <= b THEN a ELSE b

\* step positions a caller asks about: everything up to the first too-far
\* position
Positions == 0..Min(tooFarStartsAtPosition, MaxUint64)

\* the ranges a caller sets: two positions in order, and the open range a
\* backend starts with
Ranges(P) == {range \in P \X P : range[1] <= range[2]} \cup {<<0, MaxUint64>>}

\* a backend exists and the caller is not stuck in a call that never returns
Callable == constructErr = NoErr /\ ~last.hang

SetRange(start, end) ==
    /\ Callable
    /\ \E r \in {SetRangeCall(meta, blocks, Backend, start, end)} :
            /\ startBlock' = r.b.startBlock
            /\ startPosition' = r.b.startPosition
            /\ endPosition' = r.b.endPosition
            /\ startGs' = r.b.startGs
            /\ endGs' = r.b.endGs
            /\ tooFarStartsAtPosition' = r.b.tooFarStartsAtPosition
            /\ last' = CallRecord("SetRange", start, end, r.err, r.hang, r.queries, NoHash)
            /\ UNCHANGED <<meta, blocks, constructErr, initial>>

\* GetHashAtStep keeping the state it looked up as the stored start state
GetHashAtStepStoring(position) ==
    /\ Callable
    /\ \E r \in {GetHashAtStepCall(meta, blocks, Backend, position)},
          info \in {getInfoAtStep(meta, blocks, Backend, position)} :
            /\ last' = CallRecord("GetHashAtStep", position, position, r.err, r.hang, r.queries,
                                r.hash)
            /\ startGs' = IF info.err = NoErr /\ ~info.hang THEN info.gs ELSE startGs
            /\ UNCHANGED <<meta, blocks, startBlock, startPosition, endPosition,
                           endGs, tooFarStartsAtPosition, constructErr, initial>>

GetHashAtStep(position) ==
    /\ Callable
    /\ \E r \in {GetHashAtStepCall(meta, blocks, Backend, position)} :
            /\ last' = CallRecord("GetHashAtStep", position, position, r.err, r.hang, r.queries,
                                r.hash)
            /\ UNCHANGED <<meta, blocks, startBlock, startPosition, endPosition, startGs,
                           endGs, tooFarStartsAtPosition, constructErr, initial>>

\* what con.ChallengeExecution returns: nil, or the error of a failed send
SendErrors == {NoErr, "ChallengeExecution failed"}

IssueOneStepProof(position, sendErr) ==
    /\ Callable
    /\ \E r \in {IssueOneStepProofCall(meta, blocks, Backend, position, sendErr)} :
            /\ last' = CallRecord("IssueOneStepProof", position, position, r.err, r.hang,
                                r.queries, r.calls)
            /\ UNCHANGED <<meta, blocks, startBlock, startPosition, endPosition, startGs,
                           endGs, tooFarStartsAtPosition, constructErr, initial>>

Next ==
    \/ \E range \in Ranges(Positions) : SetRange(range[1], range[2])
    \/ \E position \in Positions : GetHashAtStep(position)
    \/ \E position \in Positions, sendErr \in SendErrors :
            IssueOneStepProof(position, sendErr)

Spec == Init /\ [][Next]_vars

\* the same calls, also over stores with a missing block or batch
FaultSpec == (Init \/ FaultInit) /\ [][Next]_vars

\* the calls made on a new backend about its first step and its first
\* too-far step
NewPositions == {0, tooFarStartsAtPosition}

NewNext ==
    \/ \E range \in Ranges(NewPositions) : SetRange(range[1], range[2])
    \/ \E position \in NewPositions : GetHashAtStep(position)
    \/ \E position \in NewPositions, sendErr \in SendErrors :
            IssueOneStepProof(position, sendErr)

\* every outcome of the constructor, and those calls on the backends produced
NewSpec == NewInit /\ [][NewNext]_vars

(* ---- the end-to-end scenario of the specification ---- *)
\* batches 0, 1, 2 with cumulative message counts 5, 10, 15
ScenarioMeta == [i \in 0..2 |-> 5 * (i + 1)]
ScenarioBlocks == 0..15

\* the challenge starts at (batch 0, position 0) on block 0 and ends at the
\* start of batch 2 or at the start of batch 3
ScenarioInit ==
    \E endBatch \in {2, 3} :
        Construct(ScenarioMeta, ScenarioBlocks,
                  GoGlobalState(HashOfBlock(0), 0, 0),
                  GoGlobalState(HashOfBlock(ScenarioMeta[endBatch - 1]), endBatch, 0))

ScenarioPositions == {0, 5, 10, 11, 14, 15, 16}

ScenarioNext ==
    \/ \E range \in Ranges(ScenarioPositions) : SetRange(range[1], range[2])
    \/ \E position \in ScenarioPositions : GetHashAtStep(position)
    \/ \E position \in ScenarioPositions, sendErr \in SendErrors :
            IssueOneStepProof(position, sendErr)

ScenarioSpec == ScenarioInit /\ [][ScenarioNext]_vars

(* ---- a challenge over an inbox with an empty batch ---- *)
\* batches 0..3 with cumulative message counts 1, 2, 2, 3: batch 2 is empty
EmptyBatchMeta == [i \in 0..3 |-> IF i < 2 THEN i + 1 ELSE i]
EmptyBatchBlocks == 0..3

\* the challenge covers the whole inbox
EmptyBatchInit ==
    Construct(EmptyBatchMeta, EmptyBatchBlocks,
              GoGlobalState(HashOfBlock(0), 0, 0),
              GoGlobalState(HashOfBlock(3), 4, 0))

EmptyBatchPositions == 0..4

EmptyBatchNext ==
    \/ \E range \in Ranges(EmptyBatchPositions) : SetRange(range[1], range[2])
    \/ \E position \in EmptyBatchPositions : GetHashAtStep(position)
    \/ \E position \in EmptyBatchPositions, sendErr \in SendErrors :
            IssueOneStepProof(position, sendErr)

EmptyBatchSpec == EmptyBatchInit /\ [][EmptyBatchNext]_vars

(* ---- challenges over message counts up to math.MaxUint64 ---- *)
\* message counts and block numbers at both ends of the uint64 range
WideCounts == {0, 1, MaxUint64 - 1, MaxUint64}
WideMetas == {m \in [0..(MaxBatch - 1) -> WideCounts] : NonDecreasing(m)}
WideBlocks == 0..MaxUint64

WideInit ==
    \E m \in WideMetas, n \in WideCounts, startBatch \in 0..MaxBatch, endBatch \in 0..MaxBatch :
        /\ Construct(m, WideBlocks, GoGlobalState(HashOfBlock(n), startBatch, 0),
                     GoGlobalState(HashOfBlock(MaxUint64), endBatch, 0))
        /\ constructErr = NoErr

\* the first step, the steps on both sides of the boundary, the last position
WidePositions == {0, Sub(tooFarStartsAtPosition, 1), tooFarStartsAtPosition, MaxUint64}

WideNext ==
    \/ \E range \in Ranges(WidePositions) : SetRange(range[1], range[2])
    \/ \E position \in WidePositions : GetHashAtStep(position)
    \/ \E position \in WidePositions, sendErr \in SendErrors :
            IssueOneStepProof(position, sendErr)

WideSpec == WideInit /\ [][WideNext]_vars

(* ---- properties ---- *)
\* getInfoAtStep on the backend as it is now
InfoNow(position) == getInfoAtStep(meta, blocks, Backend, position)
\* getInfoAtStep on the backend as it was constructed
InfoInitial(position) == getInfoAtStep(meta, blocks, initial, position)
\* what a caller of getInfoAtStep sees
Outcome(r) == <<r.gs, r.status, r.err, r.hang>>
\* meta(i - 1), with meta(-1) = 0
PrevCount(i) == IF i = 0 THEN 0 ELSE GetBatchMetadata(meta, i - 1)
AllBlocksPresent == blocks = AllBlocks
RangeFields == <<startGs, endGs, startPosition, endPosition>>
\* the step is a SetRange call that makes its lookups (not the no-op of line 206)
SetRangeLooksUp ==
    last'.op = "SetRange" /\ ~(startPosition = last'.start /\ endPosition = last'.end)
\* the step is a SetRange call that made its lookups and returned nil
SetRangeCommits == SetRangeLooksUp /\ last'.err = NoErr /\ ~last'.hang
\* the error the lookups of SetRange(start, end) return, start first
LookupError(s, e) ==
    IF s.hang THEN NoErr
    ELSE IF s.err # NoErr THEN s.err
    ELSE IF e.hang THEN NoErr
    ELSE e.err

\* C1: a SetRange call whose start or end lookup returns an error (a missing
\* block, missing batch metadata, a locator consistency error) returns that
\* error, and a SetRange call that returns an error leaves startGs, endGs,
\* startPosition and endPosition as they were.
C1_SetRangeAtomic ==
    [][last'.op = "SetRange" =>
        /\ last'.err # NoErr => UNCHANGED RangeFields
        /\ SetRangeLooksUp =>
            \A s \in {InfoNow(last'.start)}, e \in {InfoNow(last'.end)} :
                \A failed \in {LookupError(s, e)} :
                    failed # NoErr => last'.err = failed /\ UNCHANGED RangeFields]_vars

\* a SetRange call failed on a block or batch missing at its end lookup,
\* after a start lookup that returned a state other than the stored one
C1_Witness ==
    /\ last.op = "SetRange"
    /\ last.err \in {"failed to get block in block challenge",
                     "failed to get batch metadata while binary searching"}
    /\ InfoNow(last.start).err = NoErr
    /\ ~InfoNow(last.start).hang
    /\ InfoNow(last.start).gs # startGs

\* C2: after a SetRange call that made its lookups and succeeded, the stored
\* startPosition and endPosition are the call's arguments.
C2_PositionsStored ==
    [][SetRangeCommits => startPosition' = last'.start /\ endPosition' = last'.end]_vars

\* C3: right after a successful SetRange(s, e), a second SetRange(s, e)
\* changes no stored field and makes no block-store or metadata query.
C3_SetRangeIdempotent ==
    (last.op = "SetRange" /\ last.err = NoErr /\ ~last.hang)
        => /\ SetRangeCall(meta, blocks, Backend, last.start, last.end).b = Backend
           /\ SetRangeCall(meta, blocks, Backend, last.start, last.end).queries = 0

\* C4: after a SetRange call that made its lookups and succeeded, startGs is
\* the state getInfoAtStep returned for the new start (the zero state when
\* it is too far), and endGs is the state returned for the new end if its
\* status is Finished, and the previous endGs otherwise.
C4_CommitRule ==
    [][SetRangeCommits
        => /\ startGs' = InfoNow(last'.start).gs
           /\ last'.start >= tooFarStartsAtPosition => startGs' = ZeroGlobalState
           /\ endGs' = IF InfoNow(last'.end).status = STATUS_FINISHED
                       THEN InfoNow(last'.end).gs
                       ELSE endGs]_vars

\* a SetRange call succeeded with a Finished new start and a too-far new end,
\* and the end state kept is not the zero state
C4_Witness ==
    /\ last.op = "SetRange"
    /\ last.err = NoErr
    /\ ~last.hang
    /\ last.start < tooFarStartsAtPosition
    /\ last.end = tooFarStartsAtPosition
    /\ startGs # initial.startGs
    /\ endGs # ZeroGlobalState

\* C5: over complete non-decreasing metadata, an index i returned by
\* findBatchFromMessageCount(msgCount) is 0 when msgCount is 0, and otherwise
\* has meta(i) >= msgCount and (i == low or meta(i-1) < msgCount).
C5_LocatorSmallest ==
    MetaComplete =>
        \A msgCount \in 0..MaxMsg :
            \A r \in {findBatchFromMessageCount(meta, Backend, msgCount)} :
                (r.err = NoErr /\ ~r.hang) =>
                    IF msgCount = 0
                    THEN r.batch = 0
                    ELSE /\ GetBatchMetadata(meta, r.batch) >= msgCount
                         /\ r.batch = SearchLow(Backend) \/ PrevCount(r.batch) < msgCount

\* C6: with all blocks present and complete non-decreasing metadata, getInfoAtStep returns (the
\* loop of findBatchFromMessageCount terminates) for every position below
\* tooFarStartsAtPosition, in every state.
C6_LocatorTerminates ==
    (MetaComplete /\ AllBlocksPresent) =>
        /\ ~last.hang
        /\ \A position \in 0..(tooFarStartsAtPosition - 1) : ~InfoNow(position).hang

\* C7: on every call of findBatchFromMessageCount made by getInfoAtStep with
\* msgCount > 0, every loop iteration starts with meta(high) >= msgCount and
\* meta(low - 1) < msgCount (meta(-1) = 0).
C7_LoopInvariant ==
    (MetaComplete /\ AllBlocksPresent) =>
        \A position \in 0..(tooFarStartsAtPosition - 1) :
            \A r \in {InfoNow(position)} :
                Add(startBlock, position) > 0 =>
                    \A k \in 1..Len(r.trace) :
                        /\ GetBatchMetadata(meta, r.trace[k][2]) >= Add(startBlock, position)
                        /\ PrevCount(r.trace[k][1]) < Add(startBlock, position)

\* C8: for a constructed backend with tooFarStartsAtPosition = T >= 1, all
\* blocks present and complete non-decreasing metadata, getInfoAtStep(T-1)
\* returns Finished without error and getInfoAtStep(T) returns the zero
\* state with status TooFar.
C8_Boundary ==
    (MetaComplete /\ AllBlocksPresent /\ initial.tooFarStartsAtPosition >= 1) =>
        /\ InfoInitial(initial.tooFarStartsAtPosition - 1).err = NoErr
        /\ ~InfoInitial(initial.tooFarStartsAtPosition - 1).hang
        /\ InfoInitial(initial.tooFarStartsAtPosition - 1).status = STATUS_FINISHED
        /\ Outcome(InfoInitial(initial.tooFarStartsAtPosition))
            = <<ZeroGlobalState, STATUS_TOO_FAR, NoErr, FALSE>>

\* C9: with the stores fixed (all blocks present, metadata complete),
\* getInfoAtStep(position) has the same outcome in every state of the backend
\* as on the backend as constructed.
C9_ResolverPure ==
    (MetaComplete /\ AllBlocksPresent) =>
        \A position \in Positions :
            Outcome(InfoNow(position)) = Outcome(InfoInitial(position))

\* the scenario as the specification states it: the challenge ends at
\* (batch 2, position 0)
ScenarioAsStated ==
    /\ meta = ScenarioMeta
    /\ initial.startGs = GoGlobalState(HashOfBlock(0), 0, 0)
    /\ initial.endGs.Batch = 2
    /\ initial.endGs.PosInBatch = 0

\* the same scenario with the challenge ending at (batch 3, position 0)
ScenarioAmended ==
    /\ meta = ScenarioMeta
    /\ initial.startGs = GoGlobalState(HashOfBlock(0), 0, 0)
    /\ initial.endGs.Batch = 3
    /\ initial.endGs.PosInBatch = 0

ScenarioOutcome ==
    /\ constructErr = NoErr
    /\ initial.startBlock = 0
    /\ initial.tooFarStartsAtPosition = 16
    /\ InfoInitial(14).err = NoErr
    /\ ~InfoInitial(14).hang
    /\ InfoInitial(14).status = STATUS_FINISHED
    /\ InfoInitial(14).gs.Batch = 2
    /\ InfoInitial(14).gs.PosInBatch = 4
    /\ InfoInitial(16).err = NoErr
    /\ InfoInitial(16).status = STATUS_TOO_FAR

\* C10 as stated: with counts 5, 10, 15, start (batch 0, 0) on block 0 and
\* end (batch 2, 0), construction gives tooFarStartsAtPosition = 16,
\* getInfoAtStep(14) is Finished with batch 2, posInBatch 4, and
\* getInfoAtStep(16) is TooFar.
C10_ScenarioAsStated == ScenarioAsStated => ScenarioOutcome

\* C10 amended: the same with the challenge ending at (batch 3, position 0).
C10_Scenario == ScenarioAmended => ScenarioOutcome

\* the amended scenario, with the hash of step 14 asked of the fresh backend
C10_Witness ==
    /\ ScenarioAmended
    /\ Backend = initial
    /\ last.op = "GetHashAtStep"
    /\ last.start = 14
    /\ last.err = NoErr
    /\ ~last.hang

\* what the claim requires of the contract's states start and end for a
\* backend to be produced
ConstructionValid(start, end) ==
    /\ start.PosInBatch = 0
    /\ end.PosInBatch = 0
    /\ \E n \in blocks : HashOfBlock(n) = start.BlockHash /\ PrevCount(start.Batch) = n
    /\ end.Batch > start.Batch
    /\ GetBatchMetadata(meta, end.Batch - 1) \in blocks

\* C11: NewBlockChallengeBackend produces a backend exactly when the start
\* and end states have posInBatch 0, the start block hash resolves to a
\* block whose number is the message count of batch startGs.batch - 1 (0 for
\* batch 0), endGs.batch > startGs.batch, and a block exists at the message
\* count of batch endGs.batch - 1; otherwise it returns an error and no
\* backend.
C11_ConstructionValidation ==
    last.op = "New" =>
        /\ (constructErr = NoErr) <=> ConstructionValid(last.start, last.end)
        /\ constructErr = NoErr =>
            /\ startGs = last.start
            /\ endGs = last.end
            /\ HashOfBlock(startBlock) = last.start.BlockHash
        /\ constructErr # NoErr => Backend = ZeroBackend /\ ~ENABLED NewNext

\* a backend was produced for a challenge that starts after batch 0, on a
\* block other than block 0
C11_Witness ==
    /\ last.op = "New"
    /\ constructErr = NoErr
    /\ startGs.Batch > 0
    /\ startBlock > 0

\* C12: in every reachable state and for every position, a getInfoAtStep
\* call that returns no error returns status Finished (1) or TooFar (3), so
\* GetHashAtStep never reaches its 'Unknown block status' panic.
C12_ClosedStatusSet ==
    /\ last.err # "panic: Unknown block status"
    /\ \A position \in 0..MaxUint64 :
        \A r \in {InfoNow(position)} :
            (r.err = NoErr /\ ~r.hang) =>
                /\ r.status \in {STATUS_FINISHED, STATUS_TOO_FAR}
                /\ r.status \notin {0, 2}
                /\ BlockStateHash(r).err = NoErr

\* on a narrowed backend, GetHashAtStep returned the hash of a Finished step
\* while another step of the range has no block
C12_Witness ==
    /\ last.op = "GetHashAtStep"
    /\ last.err = NoErr
    /\ ~last.hang
    /\ last.start < tooFarStartsAtPosition
    /\ Backend # initial
    /\ \E position \in Positions :
        InfoNow(position).err = "failed to get block in block challenge"

\* a step made by a call of GetHashAtStep or of IssueOneStepProof
ReadOnlyCall == last'.op \in {"GetHashAtStep", "IssueOneStepProof"}

\* C13: GetHashAtStep and IssueOneStepProof, whether they succeed or fail,
\* leave startGs, endGs, startPosition, endPosition, startBlock and
\* tooFarStartsAtPosition unchanged; SetRange never changes startBlock or
\* tooFarStartsAtPosition, which keeps its construction-time value in every
\* reachable state.
C13_Frame ==
    /\ [](tooFarStartsAtPosition = initial.tooFarStartsAtPosition)
    /\ [][/\ ReadOnlyCall => UNCHANGED <<startGs, endGs, startPosition, endPosition,
                                         startBlock, tooFarStartsAtPosition>>
          /\ last'.op = "SetRange" => UNCHANGED <<startBlock, tooFarStartsAtPosition>>]_vars

\* IssueOneStepProof failed on a backend whose range SetRange had narrowed
C13_Witness ==
    /\ last.op = "IssueOneStepProof"
    /\ last.err # NoErr
    /\ startGs # initial.startGs
    /\ endGs # initial.endGs

\* the lookup returned a state and a status
Returned(r) == r.err = NoErr /\ ~r.hang

\* C14: IssueOneStepProof for position p calls ChallengeExecution exactly
\* once, and only when getInfoAtStep(p) and getInfoAtStep(p+1) both
\* succeeded, with the two status codes in order and the hashes of the two
\* global states (not the block-state hashes); if either lookup fails it
\* returns that lookup's error and makes no contract call.
C14_OneStepProof ==
    last.op = "IssueOneStepProof" =>
        \A first \in {InfoNow(last.start)}, second \in {InfoNow(Add(last.start, 1))} :
            IF Returned(first) /\ Returned(second)
            THEN /\ Len(last.ret) = 1
                 /\ last.ret[1].machineStatuses = <<first.status, second.status>>
                 /\ last.ret[1].globalStateHashes
                        = <<GlobalStateHash(first.gs), GlobalStateHash(second.gs)>>
                 /\ last.ret[1].globalStateHashes[1] # BlockStateHash(first).hash
                 /\ last.ret[1].globalStateHashes[2] # BlockStateHash(second).hash
            ELSE /\ last.ret = <<>>
                 /\ ~last.hang =>
                     /\ last.err # NoErr
                     /\ last.err = IF Returned(first) THEN second.err ELSE first.err

\* on a narrowed backend, a proof was sent for the last Finished step and
\* the first too-far step
C14_Witness ==
    /\ last.op = "IssueOneStepProof"
    /\ last.err = NoErr
    /\ Len(last.ret) = 1
    /\ last.ret[1].machineStatuses = <<STATUS_FINISHED, STATUS_TOO_FAR>>
    /\ Backend # initial

\* the hash of the literal "Block state, too far:"
TooFarHash == Keccak256Hash(<<"Block state, too far:">>)

\* C15: in every reachable state, GetHashAtStep of any position >=
\* tooFarStartsAtPosition returns without error the hash of the literal
\* "Block state, too far:", and for a Finished position it returns the hash
\* of "Block state:" followed by the global-state hash, which is neither the
\* too-far hash nor the global-state hash itself.
C15_TooFarHash ==
    /\ \A position \in tooFarStartsAtPosition..MaxUint64 :
        \A h \in {GetHashAtStepCall(meta, blocks, Backend, position)} :
            h.err = NoErr /\ ~h.hang /\ h.hash = TooFarHash
    /\ \A position \in 0..(tooFarStartsAtPosition - 1) :
        \A r \in {InfoNow(position)} :
            (Returned(r) /\ r.status = STATUS_FINISHED) =>
                \A h \in {GetHashAtStepCall(meta, blocks, Backend, position)} :
                    /\ h.err = NoErr
                    /\ h.hash = Keccak256Hash(<<"Block state:", GlobalStateHash(r.gs)>>)
                    /\ h.hash # TooFarHash
                    /\ h.hash # GlobalStateHash(r.gs)
    /\ (last.op = "GetHashAtStep" /\ last.start >= tooFarStartsAtPosition) =>
            last.err = NoErr /\ ~last.hang /\ last.ret = TooFarHash

\* GetHashAtStep was asked the boundary position after SetRange replaced
\* both stored states
C15_Witness ==
    /\ last.op = "GetHashAtStep"
    /\ last.start = tooFarStartsAtPosition
    /\ last.ret = TooFarHash
    /\ startGs # initial.startGs
    /\ endGs # initial.endGs

\* C16: in every reachable state, whenever getInfoAtStep(position) returns
\* (gs, Finished) with m = startBlock + position > 0, meta(gs.batch - 1) < m
\* <= meta(gs.batch) (meta(-1) = 0), gs.posInBatch = m - meta(gs.batch - 1)
\* >= 1 and gs.blockHash is the hash of block m; when m = 0 the result is
\* batch 0, posInBatch 0.
C16_BatchContainment ==
    \A position \in 0..(tooFarStartsAtPosition - 1) :
        \A r \in {InfoNow(position)}, msg \in {Add(startBlock, position)} :
            (Returned(r) /\ r.status = STATUS_FINISHED) =>
                /\ r.gs.BlockHash = HashOfBlock(msg)
                /\ msg \in blocks
                /\ IF msg > 0
                   THEN \A prev \in {PrevCount(r.gs.Batch)} :
                        /\ prev # NotFound
                        /\ prev < msg
                        /\ msg <= GetBatchMetadata(meta, r.gs.Batch)
                        /\ r.gs.PosInBatch = msg - prev
                        /\ r.gs.PosInBatch >= 1
                   ELSE r.gs.Batch = 0 /\ r.gs.PosInBatch = 0

\* after a narrowing, a step resolves to a batch that follows an empty batch
C16_Witness ==
    /\ last.op = "SetRange"
    /\ last.err = NoErr
    /\ Backend # initial
    /\ \E position \in 0..(tooFarStartsAtPosition - 1) :
        \A r \in {InfoNow(position)} :
            /\ Returned(r)
            /\ r.gs.Batch >= 2
            /\ PrevCount(r.gs.Batch) = PrevCount(r.gs.Batch - 1)

\* C17: for every backend NewBlockChallengeBackend produced, including those
\* whose start batch and start block number are greater than 0,
\* getInfoAtStep(0) returns without error status Finished and the start
\* state read from the contract at construction, and SetRange(0, e) for the
\* boundary position e succeeds.
C17_StartAgreement ==
    \A r \in {InfoInitial(0)} :
        /\ Returned(r)
        /\ r.status = STATUS_FINISHED
        /\ r.gs = initial.startGs
        /\ SetRangeCall(meta, blocks, initial, 0, initial.tooFarStartsAtPosition).err = NoErr

\* what a caller of GetHashAtStep sees
HashOutcome(h) == <<h.hash, h.err, h.hang>>

\* C18: after a successful SetRange(s, e) with s <= e, whatever successful
\* SetRange calls came before it, getInfoAtStep(p) and GetHashAtStep(p)
\* return for every p in s..e what they returned on the backend as
\* constructed.
C18_InRangeStable ==
    (last.op = "SetRange" /\ last.err = NoErr /\ ~last.hang /\ last.start <= last.end) =>
        \A position \in last.start..last.end :
            /\ Outcome(InfoNow(position)) = Outcome(InfoInitial(position))
            /\ HashOutcome(GetHashAtStepCall(meta, blocks, Backend, position))
                = HashOutcome(GetHashAtStepCall(meta, blocks, initial, position))

\* the message count of the last batch of the challenge
EndMsgCount == GetBatchMetadata(meta, initial.endGs.Batch - 1)

\* the boundary and the message numbers below it, computed in the integers
NoWrapAround ==
    /\ EndMsgCount >= initial.startBlock
    /\ initial.tooFarStartsAtPosition = EndMsgCount - initial.startBlock + 1
    /\ initial.tooFarStartsAtPosition >= 1
    /\ \A position \in 0..(initial.tooFarStartsAtPosition - 1) :
        /\ initial.startBlock + position <= MaxUint64
        /\ initial.startBlock + position <= EndMsgCount

\* C19 as stated: for every successful construction over non-decreasing
\* metadata, endMsgCount >= startBlock, tooFarStartsAtPosition = endMsgCount
\* - startBlock + 1 without unsigned wrap-around and is at least 1, and for
\* every position below it startBlock + position does not overflow and is
\* at most endMsgCount.
C19_NoWrapAsStated == NoWrapAround

\* C19 amended: the same for every successful construction except the one
\* with startBlock = 0 and endMsgCount = MaxUint64, where endMsgCount -
\* startBlock + 1 wraps to 0.
C19_NoWrap == EndMsgCount - initial.startBlock < MaxUint64 => NoWrapAround

\* the largest boundary that does not wrap: the challenge ends at message
\* MaxUint64, and the hash of that last step was asked
C19_Witness ==
    /\ EndMsgCount = MaxUint64
    /\ initial.startBlock = 1
    /\ tooFarStartsAtPosition = MaxUint64
    /\ last.op = "GetHashAtStep"
    /\ last.start = MaxUint64 - 1
    /\ last.err = NoErr
    /\ ~last.hang

====
